---- MODULE Spec2Model ----
(***************************************************************************)
(* Model of the extraction layer of discord-export-visualizer:            *)
(*   src/modules/account.js   parseUser, parseApplications, readJson      *)
(*   src/modules/messages.js  parseCsv, readMessages, readChannelInfo,    *)
(*                            listChannelDirs, readJson                   *)
(* Each group of operations has its own specification (SpecApps, ...),    *)
(* whose Init draws the archive content from bounded sets.                *)
(***************************************************************************)
EXTENDS Integers, Sequences, FiniteSets, TLC

(***************************************************************************)
(* JavaScript values, tagged so that values of different types compare.   *)
(***************************************************************************)
Undefined == [t |-> "undefined"]
Null == [t |-> "null"]
Str(s) == [t |-> "string", s |-> s]
Num(n) == [t |-> "number", n |-> n]
Bool(b) == [t |-> "boolean", b |-> b]
Arr(a) == [t |-> "array", a |-> a]
Obj(o) == [t |-> "object", o |-> o]

\* A file of the archive: absent, or a text that JSON.parse rejects, or a
\* text that JSON.parse turns into the value json.
NoFile == [exists |-> FALSE]
BadFile == [exists |-> TRUE, parses |-> FALSE]
JsonFile(v) == [exists |-> TRUE, parses |-> TRUE, json |-> v]

\* The outcome of an async call: a value, or a thrown error (a rejection).
Returns(v) == [ok |-> TRUE, value |-> v]
Throws(e) == [ok |-> FALSE, error |-> e]

(***************************************************************************)
(* Bounds                                                                  *)
(***************************************************************************)
MaxApps == 3
MaxEntries == 3
MaxRows == 2
MaxClicks == 3
MaxSelections == 2

(***************************************************************************)
(* JavaScript operators used by the code                                   *)
(***************************************************************************)
Nullish(v) == v \in {Undefined, Null}

Truthy(v) ==
    CASE v.t \in {"undefined", "null"} -> FALSE
      [] v.t = "string" -> v.s # ""
      [] v.t = "number" -> v.n # 0
      [] v.t = "boolean" -> v.b
      [] OTHER -> TRUE

\* a || b, a && b, !a, a ?? b, a === b (on primitives)
Or(a, b) == IF Truthy(a) THEN a ELSE b
And(a, b) == IF Truthy(a) THEN b ELSE a
Not(a) == Bool(~Truthy(a))
Coalesce(a, b) == IF Nullish(a) THEN b ELSE a
StrictEq(a, b) == Bool(a = b)

\* v.field for a v that is neither null nor undefined
Get(v, field) ==
    IF v.t = "object" /\ field \in DOMAIN v.o THEN v.o[field]
    ELSE IF v.t = "array" /\ field = "length" THEN Num(Len(v.a))
    ELSE Undefined

\* v?.field and v?.[0]
OptGet(v, field) == IF Nullish(v) THEN Undefined ELSE Get(v, field)
OptFirst(v) ==
    IF Nullish(v) THEN Undefined
    ELSE IF v.t = "array" /\ Len(v.a) > 0 THEN v.a[1]
    ELSE Undefined

(***************************************************************************)
(* State                                                                   *)
(***************************************************************************)
VARIABLES
    chDir,      \* the channel directory identifier given to readChannelInfo
    chFile,     \* Messages/<chDir>/channel.json
    chInfo      \* the outcome of readChannelInfo, NotCalled before the call

chVars == <<chDir, chFile, chInfo>>

NotCalled == [ok |-> FALSE, error |-> "not called"]

VARIABLES
    entries,    \* the entry paths of the archive, in archive order, each split at "/"
    dirs        \* the outcome of listChannelDirs, NotCalled before the call

listVars == <<entries, dirs>>

VARIABLES
    csvIn,      \* the header, rows and line ends the CSV text was written from
    csvText,    \* the text given to parseCsv, as its sequence of tokens
    csvOut      \* the outcome of parseCsv, NotCalled before the call

csvVars == <<csvIn, csvText, csvOut>>

VARIABLES
    msgJson,    \* Messages/<dir>/messages.json
    msgCsvIn,   \* what Messages/<dir>/messages.csv was written from, NoCsvFile if absent
    msgCsv,     \* Messages/<dir>/messages.csv
    msgOut      \* the outcome of readMessages, NotCalled before the call

msgVars == <<msgJson, msgCsvIn, msgCsv, msgOut>>

VARIABLES
    userFile,   \* Account/user.json
    account     \* the outcome of parseUser, NotCalled before the call

userVars == <<userFile, account>>

VARIABLES
    chKind,      \* Messages view: channel -> what readMessages gives for it
    clicked,     \* the channels clicked so far, in click order
    reads,       \* clicks whose `await readMessages(zip, dir)` has not settled
    highlighted, \* the channel whose list item is highlighted
    msgHeading,  \* msgHeading.textContent
    msgContainer \* the content of msgContainer

clickVars == <<chKind, clicked, reads, highlighted, msgHeading, msgContainer>>

VARIABLES
    selected,    \* main.js: the files given to handleFile so far, in order
    call,        \* per handleFile call: where it is, and the folders it has still to visit
    zip,         \* the variable zip: 0 (undefined) or the call whose archive it holds
    nav,         \* the labels of the buttons in nav, in order
    importing,   \* the calls suspended at `await import(...)`, in the order they got there
    uploadStatus \* uploadStatus.textContent

mainVars == <<selected, call, zip, nav, importing, uploadStatus>>

(***************************************************************************)
(* account.js: parseApplications                                           *)
(***************************************************************************)
VARIABLES
    apps,       \* Account/applications: app id -> state of its subfolder
    pc,         \* "idle", "resolved" (promise resolved), "received" (caller has the list)
    pending,    \* reads of application.json started by the forEach callbacks, not settled
    result,     \* the array `result` of parseApplications
    handed,     \* the content of that array when the caller received it
    rejected    \* callbacks whose promise rejected (nobody awaits them)

appVars == <<apps, pc, pending, result, handed, rejected>>

AppIds == 1..MaxApps

\* "none": no subfolder; "dironly": subfolder without application.json;
\* "ok": application.json parses; "bad": application.json is malformed.
AppStates == {"none", "dironly", "ok", "bad"}

AppFile(id) ==
    CASE apps[id] = "ok" -> JsonFile([id |-> id, name |-> id, description |-> Undefined])
      [] apps[id] = "bad" -> BadFile
      [] OTHER -> NoFile

\* The entries zip.folder('Account/applications').forEach visits, in archive order.
AppEntriesOf(id) ==
    IF apps[id] = "none" THEN <<>>
    ELSE <<[app |-> id, name |-> "", dir |-> TRUE]>> \o
         (IF apps[id] \in {"ok", "bad"}
          THEN <<[app |-> id, name |-> "application.json", dir |-> FALSE]>>
          ELSE <<[app |-> id, name |-> "icon.png", dir |-> FALSE]>>)

RECURSIVE AppEntriesUpTo(_)
AppEntriesUpTo(n) == IF n = 0 THEN <<>> ELSE AppEntriesUpTo(n - 1) \o AppEntriesOf(n)

AppEntries == AppEntriesUpTo(MaxApps)

EndsWithApplicationJson(name) == name \in {"application.json", "old-application.json"}

\* readJson(zip, path) of account.js on a file of the archive.
ReadJsonAccount(file) ==
    IF ~file.exists THEN Throws("File not found")
    ELSE IF ~file.parses THEN Throws("SyntaxError")
    ELSE Returns(file.json)

\* The callbacks of the forEach that reach `await readJson(...)`.
StartedReads ==
    {AppEntries[k].app : k \in {j \in 1..Len(AppEntries) :
        ~AppEntries[j].dir /\ EndsWithApplicationJson(AppEntries[j].name)}}

vars == <<appVars, chVars, listVars, csvVars, msgVars, userVars, clickVars, mainVars>>
otherThanApps == <<chVars, listVars, csvVars, msgVars, userVars, clickVars, mainVars>>
otherThanChannel == <<appVars, listVars, csvVars, msgVars, userVars, clickVars, mainVars>>
otherThanList == <<appVars, chVars, csvVars, msgVars, userVars, clickVars, mainVars>>
otherThanCsv == <<appVars, chVars, listVars, msgVars, userVars, clickVars, mainVars>>
otherThanMessages == <<appVars, chVars, listVars, csvVars, userVars, clickVars, mainVars>>
otherThanClicks == <<appVars, chVars, listVars, csvVars, msgVars, userVars, mainVars>>
otherThanMain == <<appVars, chVars, listVars, csvVars, msgVars, userVars, clickVars>>
otherThanUser == <<appVars, chVars, listVars, csvVars, msgVars, clickVars, mainVars>>

IdleApps ==
    /\ apps = [id \in AppIds |-> "none"]
    /\ pc = "idle"
    /\ pending = {}
    /\ result = <<>>
    /\ handed = <<>>
    /\ rejected = {}

IdleChannel ==
    /\ chDir = "c1"
    /\ chFile = NoFile
    /\ chInfo = NotCalled

IdleList ==
    /\ entries = <<>>
    /\ dirs = NotCalled

NoCsv == [header |-> <<>>, rows |-> <<>>, eol |-> <<>>, trailing |-> FALSE]

IdleCsv ==
    /\ csvIn = NoCsv
    /\ csvText = <<>>
    /\ csvOut = NotCalled

NoCsvFile == [header |-> <<>>, rows |-> <<>>, eol |-> <<>>, trailing |-> FALSE, absent |-> TRUE]

IdleMessages ==
    /\ msgJson = NoFile
    /\ msgCsvIn = NoCsvFile
    /\ msgCsv = NoFile
    /\ msgOut = NotCalled

IdleUser ==
    /\ userFile = NoFile
    /\ account = NotCalled

NoText == [kind |-> "empty"]

IdleClicks ==
    /\ chKind = [d \in {"c1", "c2"} |-> "nolog"]
    /\ clicked = <<>>
    /\ reads = {}
    /\ highlighted = ""
    /\ msgHeading = [kind |-> "title"]
    /\ msgContainer = NoText

IdleMain ==
    /\ selected = <<>>
    /\ call = <<>>
    /\ zip = 0
    /\ nav = <<>>
    /\ importing = <<>>
    /\ uploadStatus = ""

InitApps ==
    /\ IdleMain
    /\ IdleClicks
    /\ IdleUser
    /\ IdleMessages
    /\ IdleChannel
    /\ IdleList
    /\ IdleCsv
    /\ apps \in [AppIds -> AppStates]
    /\ pc = "idle"
    /\ pending = {}
    /\ result = <<>>
    /\ handed = <<>>
    /\ rejected = {}

\* parseApplications up to `return result`: forEach runs every callback up to its
\* first await, none is awaited, and the promise resolves with the array.
ParseApplications ==
    /\ pc = "idle"
    /\ pending' = StartedReads
    /\ result' = <<>>
    /\ pc' = "resolved"
    /\ UNCHANGED <<apps, handed, rejected>>
    /\ UNCHANGED otherThanApps

\* The continuation of one callback after `await readJson(...)`.
ApplicationRead(id) ==
    /\ pc \in {"resolved", "received"}
    /\ id \in pending
    /\ pending' = pending \ {id}
    /\ LET r == ReadJsonAccount(AppFile(id))
       IN IF r.ok
          THEN /\ result' = Append(result, [id |-> r.value.id, name |-> r.value.name,
                                            description |-> r.value.description])
               /\ UNCHANGED rejected
          ELSE /\ rejected' = rejected \cup {id}
               /\ UNCHANGED result
    /\ UNCHANGED <<apps, pc, handed>>
    /\ UNCHANGED otherThanApps

\* The caller (render's Promise.all, account.js:86-91) resumes with the list.
CallerReceives ==
    /\ pc = "resolved"
    /\ pc' = "received"
    /\ handed' = result
    /\ UNCHANGED <<apps, pending, result, rejected>>
    /\ UNCHANGED otherThanApps

NextApps ==
    \/ ParseApplications
    \/ \E id \in AppIds : ApplicationRead(id)
    \/ CallerReceives

SpecApps == InitApps /\ [][NextApps]_vars

OkApps == {id \in AppIds : apps[id] = "ok"}
HandedIds == {handed[k].id : k \in 1..Len(handed)}

\* C1: when the caller receives the list of parseApplications, no read of an
\* application.json is still pending and the list holds one record for every
\* application.json whose read succeeds.
C1_AllCollectedAtHandover ==
    pc = "received" =>
        /\ pending = {}
        /\ HandedIds = OkApps
        /\ Len(handed) = Cardinality(OkApps)

\* C2: with one application.json missing or malformed, the list the caller
\* receives still contains the record of every other application subfolder.
C2_PartialFailureIsolation ==
    (pc = "received" /\ \E id \in AppIds : apps[id] \in {"dironly", "bad"}) =>
        OkApps \subseteq HandedIds

(***************************************************************************)
(* messages.js: readChannelInfo                                            *)
(***************************************************************************)
Dirs == {"c1", "c2"}

ChannelJson(id, name, type, guild_id, guild, recipients, recipient) ==
    Obj([id |-> id, name |-> name, type |-> type, guild_id |-> guild_id,
         guild |-> guild, recipients |-> recipients, recipient |-> recipient])

User(username) == Obj([username |-> username])

\* The channel.json contents the model draws from: every field absent or
\* present, with the values the code tells apart.
ChannelJsons ==
    {ChannelJson(id, name, type, guild_id, guild, recipients, recipient) :
        id \in {Undefined, Str("777")},
        name \in {Undefined, Str(""), Str("general")},
        type \in {Undefined, Num(0), Num(1), Num(3), Str("1")},
        guild_id \in {Undefined, Null, Str(""), Str("g1")},
        guild \in {Undefined, Obj([name |-> Str("Guild")])},
        recipients \in {Undefined, Arr(<<>>), Arr(<<Str("42")>>),
                        Arr(<<User(Str("alice")), User(Str("carol"))>>),
                        Arr(<<User(Undefined)>>), Arr(<<User(Str(""))>>)},
        recipient \in {Undefined, User(Str("bob")), User(Undefined)}}

ChannelFiles == {NoFile, BadFile, JsonFile(Null)} \cup {JsonFile(ch) : ch \in ChannelJsons}

\* readJson(zip, path) of messages.js on a file of the archive.
ReadJson(file) ==
    IF ~file.exists THEN Throws("File not found")
    ELSE IF ~file.parses THEN Throws("SyntaxError")
    ELSE Returns(file.json)

\* Mutant of IsDM: the guild test is forgotten.
IsDM_NoGuildTest(ch) ==
    Or(Or(StrictEq(Get(ch, "type"), Num(1)), StrictEq(Get(ch, "type"), Num(3))),
       OptGet(Get(ch, "recipients"), "length"))

\* const isDM = !ch.guild_id && (ch.type === 1 || ch.type === 3 || ch.recipients?.length)
IsDM(ch) ==
    And(Not(Get(ch, "guild_id")),
        Or(Or(StrictEq(Get(ch, "type"), Num(1)), StrictEq(Get(ch, "type"), Num(3))),
           OptGet(Get(ch, "recipients"), "length")))

\* Mutant of ResolveName: the singular recipient is tried before the list.
ResolveName_RecipientFirst(ch, dir) ==
    Or(Or(Or(Get(ch, "name"),
             OptGet(Get(ch, "recipient"), "username")),
          OptGet(OptFirst(Get(ch, "recipients")), "username")),
       Str("DM " \o dir))

\* ch.name || ch.recipients?.[0]?.username || ch.recipient?.username || `DM ${dir}`
ResolveName(ch, dir) ==
    Or(Or(Or(Get(ch, "name"),
             OptGet(OptFirst(Get(ch, "recipients")), "username")),
          OptGet(Get(ch, "recipient"), "username")),
       Str("DM " \o dir))

Fallback(dir) ==
    [id |-> Str(dir), name |-> Str("DM " \o dir), type |-> Str(""),
     is_dm |-> Bool(TRUE), guild |-> Null]

\* Mutant of ReadChannelInfo: no catch block, the error of readJson propagates.
ReadChannelInfo_NoCatch(file, dir) ==
    LET r == ReadJson(file)
    IN IF ~r.ok THEN r
       ELSE IF Nullish(r.value) THEN Throws("TypeError")
       ELSE LET ch == r.value
            IN Returns([id |-> Get(ch, "id"),
                        name |-> ResolveName(ch, dir),
                        type |-> Get(ch, "type"),
                        is_dm |-> Not(Not(IsDM(ch))),
                        guild |-> Coalesce(OptGet(Get(ch, "guild"), "name"), Null)])

\* readChannelInfo(zip, dir): the try block, and the catch block for an error
\* of readJson or of a property access on null.
ReadChannelInfo(file, dir) ==
    LET r == ReadJson(file)
    IN IF ~r.ok \/ Nullish(r.value) THEN Returns(Fallback(dir))
       ELSE LET ch == r.value
            IN Returns([id |-> Get(ch, "id"),
                        name |-> ResolveName(ch, dir),
                        type |-> Get(ch, "type"),
                        is_dm |-> Not(Not(IsDM(ch))),
                        guild |-> Coalesce(OptGet(Get(ch, "guild"), "name"), Null)])

InitChannel ==
    /\ IdleMain
    /\ IdleClicks
    /\ IdleUser
    /\ IdleMessages
    /\ IdleApps
    /\ IdleList
    /\ IdleCsv
    /\ chDir \in Dirs
    /\ chFile \in ChannelFiles
    /\ chInfo = NotCalled

CallReadChannelInfo ==
    /\ chInfo = NotCalled
    /\ chInfo' = ReadChannelInfo(chFile, chDir)
    /\ UNCHANGED <<chDir, chFile>>
    /\ UNCHANGED otherThanChannel

NextChannel == CallReadChannelInfo

SpecChannel == InitChannel /\ [][NextChannel]_vars

ChannelCalled == chInfo # NotCalled
ChannelParsed == chFile.exists /\ chFile.parses /\ ~Nullish(chFile.json)

\* C3: when channel.json is absent or cannot be parsed, readChannelInfo returns
\* (does not throw) exactly the fallback record: id = the identifier, name =
\* "DM " followed by the identifier, type unset (the empty string the code uses
\* for no type), is_dm = true, guild = null.
C3_FallbackRecord ==
    (ChannelCalled /\ (~chFile.exists \/ ~chFile.parses)) =>
        /\ chInfo.ok
        /\ chInfo.value.id = Str(chDir)
        /\ chInfo.value.name = Str("DM " \o chDir)
        /\ chInfo.value.type = Str("")
        /\ chInfo.value.is_dm = Bool(TRUE)
        /\ chInfo.value.guild = Null

C3_Witness == ChannelCalled /\ chFile = BadFile /\ chDir = "c2"

ParsedChannel == chFile.json.o
NoGuildAssociation(ch) == ch.guild_id \in {Undefined, Null, Str("")}
DmTypeCode(ch) == ch.type \in {Num(1), Num(3)}
NonEmptyRecipients(ch) == ch.recipients.t = "array" /\ Len(ch.recipients.a) > 0

\* C4: for a parsed channel.json, is_dm is a boolean, and it is true exactly
\* when the record has no guild association (guild_id absent, null or empty)
\* and its type code is 1 or 3 or its recipients list is not empty.
C4_DirectMessageRule ==
    (ChannelCalled /\ ChannelParsed) =>
        /\ chInfo.ok
        /\ chInfo.value.is_dm.t = "boolean"
        /\ chInfo.value.is_dm.b <=>
              (/\ NoGuildAssociation(ParsedChannel)
               /\ DmTypeCode(ParsedChannel) \/ NonEmptyRecipients(ParsedChannel))

C4_Witness ==
    /\ ChannelCalled /\ ChannelParsed
    /\ ParsedChannel.guild_id = Undefined
    /\ ParsedChannel.type = Num(0)
    /\ NonEmptyRecipients(ParsedChannel)
    /\ chInfo.value.is_dm = Bool(TRUE)

Present(v) == v.t = "string" /\ v.s # ""
FirstRecipientUsername(ch) ==
    IF NonEmptyRecipients(ch) /\ ch.recipients.a[1].t = "object"
    THEN ch.recipients.a[1].o.username ELSE Undefined
SingularRecipientUsername(ch) ==
    IF ch.recipient.t = "object" THEN ch.recipient.o.username ELSE Undefined

\* C5: for a parsed channel.json, the display name is the name field if not
\* empty, else the first recipient's username if present, else the singular
\* recipient's username if present, else "DM <identifier>".
C5_DisplayName ==
    (ChannelCalled /\ ChannelParsed) =>
        chInfo.value.name =
            (IF Present(ParsedChannel.name) THEN ParsedChannel.name
             ELSE IF Present(FirstRecipientUsername(ParsedChannel))
                  THEN FirstRecipientUsername(ParsedChannel)
             ELSE IF Present(SingularRecipientUsername(ParsedChannel))
                  THEN SingularRecipientUsername(ParsedChannel)
             ELSE Str("DM " \o chDir))

\* recipients: [{username: "alice"}, ...], no name, and a singular recipient too
C5_Witness ==
    /\ ChannelCalled /\ ChannelParsed
    /\ ParsedChannel.name = Undefined
    /\ FirstRecipientUsername(ParsedChannel) = Str("alice")
    /\ SingularRecipientUsername(ParsedChannel) = Str("bob")
    /\ chInfo.value.name = Str("alice")

(***************************************************************************)
(* messages.js: listChannelDirs                                            *)
(***************************************************************************)
\* Entry paths, split at "/": "Messages/c1/" is <<"Messages", "c1", "">>.
Paths ==
    {<<"Messages", "c1", "messages.json">>, <<"Messages", "c1", "messages.csv">>,
     <<"Messages", "c1", "channel.json">>, <<"Messages", "c2", "messages.json">>,
     <<"Messages", "c2", "channel.json">>, <<"Messages", "c1", "">>,
     <<"Messages", "">>, <<"Messages", "index.json">>,
     <<"Messages", "c2", "notes.txt">>, <<"Messages", "c2", "old", "messages.csv">>,
     <<"Messages", "", "channel.json">>, <<"messages", "c2", "messages.json">>,
     <<"Account", "c2", "channel.json">>, <<"export", "Messages", "c2", "channel.json">>}

Range(s) == {s[k] : k \in 1..Len(s)}

\* zip.files is keyed by path: the entries of an archive are distinct.
RECURSIVE SeqsOfDistinct(_, _)
SeqsOfDistinct(S, n) ==
    IF n = 0 THEN {<<>>}
    ELSE LET shorter == SeqsOfDistinct(S, n - 1)
         IN shorter \cup {Append(q, x) : q \in {r \in shorter : Len(r) = n - 1}, x \in S}

Archives == {q \in SeqsOfDistinct(Paths, MaxEntries) : Cardinality(Range(q)) = Len(q)}

LogNames == {"messages.json", "messages.csv", "channel.json"}

\* relativePath.match(/^Messages\/([^/]+)\/(?:messages\.json|messages\.csv|channel\.json)$/):
\* the captured group, or Null when the path does not match.
MatchChannelPath(path) ==
    IF /\ Len(path) = 3
       /\ path[1] = "Messages"
       /\ path[2] # ""
       /\ path[3] \in LogNames
    THEN Str(path[2]) ELSE Null

\* Mutant of SetAdd: an array push instead of Set.add.
SetAdd_Push(set, x) == Append(set, x)

\* dirs.add(x) on a Set kept in insertion order
SetAdd(set, x) == IF x \in Range(set) THEN set ELSE Append(set, x)

RECURSIVE ScanEntries(_, _)
ScanEntries(paths, set) ==
    IF paths = <<>> THEN set
    ELSE LET match == MatchChannelPath(Head(paths))
         IN ScanEntries(Tail(paths), IF match # Null THEN SetAdd(set, match.s) ELSE set)

\* listChannelDirs(zip): Array.from(dirs) after the forEach
ListChannelDirs(paths) == ScanEntries(paths, <<>>)

InitList ==
    /\ IdleMain
    /\ IdleClicks
    /\ IdleUser
    /\ IdleMessages
    /\ IdleApps
    /\ IdleChannel
    /\ IdleCsv
    /\ entries \in Archives
    /\ dirs = NotCalled

CallListChannelDirs ==
    /\ dirs = NotCalled
    /\ dirs' = Returns(ListChannelDirs(entries))
    /\ UNCHANGED entries
    /\ UNCHANGED otherThanList

NextList == CallListChannelDirs

SpecList == InitList /\ [][NextList]_vars

ChannelIdsInArchive ==
    {id \in {p[2] : p \in {q \in Range(entries) : Len(q) >= 2}} :
        /\ id # ""
        /\ \E name \in LogNames : \E k \in 1..Len(entries) : entries[k] = <<"Messages", id, name>>}

\* C6: listChannelDirs returns every identifier once, and returns an identifier
\* exactly when some entry path is Messages/<identifier>/messages.json,
\* Messages/<identifier>/messages.csv or Messages/<identifier>/channel.json.
C6_DistinctChannelDirs ==
    dirs # NotCalled =>
        /\ dirs.ok
        /\ \A i, j \in 1..Len(dirs.value) : dirs.value[i] = dirs.value[j] => i = j
        /\ Range(dirs.value) = ChannelIdsInArchive

\* a channel with both a JSON and a CSV log
C6_Witness ==
    /\ dirs # NotCalled
    /\ <<"Messages", "c1", "messages.json">> \in Range(entries)
    /\ <<"Messages", "c1", "messages.csv">> \in Range(entries)
    /\ dirs.value = <<"c1">>

(***************************************************************************)
(* messages.js: parseCsv                                                   *)
(* A text is its sequence of tokens: "\n", "\r", " ", "," and words (runs  *)
(* of other characters).                                                   *)
(***************************************************************************)
Whitespace == {"\n", "\r", " "}

RECURSIVE TrimStart(_)
TrimStart(text) ==
    IF text # <<>> /\ Head(text) \in Whitespace THEN TrimStart(Tail(text)) ELSE text

RECURSIVE TrimEnd(_)
TrimEnd(text) ==
    IF text # <<>> /\ text[Len(text)] \in Whitespace
    THEN TrimEnd(SubSeq(text, 1, Len(text) - 1)) ELSE text

\* text.trim()
Trim(text) == TrimEnd(TrimStart(text))

\* text.split(/\r?\n/): cur is the line being read, acc the lines read
RECURSIVE SplitLinesFrom(_, _, _)
SplitLinesFrom(rest, cur, acc) ==
    IF rest = <<>> THEN Append(acc, cur)
    ELSE IF Head(rest) = "\n" THEN SplitLinesFrom(Tail(rest), <<>>, Append(acc, cur))
    ELSE IF Head(rest) = "\r" /\ Len(rest) >= 2 /\ rest[2] = "\n"
         THEN SplitLinesFrom(Tail(Tail(rest)), <<>>, Append(acc, cur))
    ELSE SplitLinesFrom(Tail(rest), Append(cur, Head(rest)), acc)

SplitLines(text) == SplitLinesFrom(text, <<>>, <<>>)

\* line.split(','): cur is the value being read, acc the values read
RECURSIVE SplitCommaFrom(_, _, _)
SplitCommaFrom(rest, cur, acc) ==
    IF rest = <<>> THEN Append(acc, cur)
    ELSE IF Head(rest) = "," THEN SplitCommaFrom(Tail(rest), "", Append(acc, cur))
    ELSE SplitCommaFrom(Tail(rest), cur \o Head(rest), acc)

SplitComma(line) == SplitCommaFrom(line, "", <<>>)

EmptyObject == [k \in {} |-> Undefined]

\* obj[key] = value
SetKey(obj, key, value) ==
    [k \in DOMAIN obj \cup {key} |-> IF k = key THEN value ELSE obj[k]]

\* values[i] of an array, undefined past its end (i counts from 1 here)
At(values, i) == IF i <= Len(values) THEN Str(values[i]) ELSE Undefined

\* headers.forEach((h, i) => obj[h] = values[i]) from header i on
RECURSIVE AssignFrom(_, _, _, _)
AssignFrom(headers, values, i, obj) ==
    IF i > Len(headers) THEN obj
    ELSE AssignFrom(headers, values, i + 1, SetKey(obj, headers[i], At(values, i)))

RowObject(headers, values) == AssignFrom(headers, values, 1, EmptyObject)

\* Mutant of ParseCsv: the header line is not sliced off.
ParseCsv_KeepHeader(text) ==
    LET lines == SplitLines(Trim(text))
        headers == SplitComma(lines[1])
    IN [k \in 1..Len(lines) |-> RowObject(headers, SplitComma(lines[k]))]

\* parseCsv(text)
ParseCsv(text) ==
    LET lines == SplitLines(Trim(text))
    IN IF Len(lines) = 0 THEN <<>>
       ELSE LET headers == SplitComma(lines[1])
            IN [k \in 1..(Len(lines) - 1) |->
                    RowObject(headers, SplitComma(lines[k + 1]))]

\* The tokens of a value, of a line of values, and of a CSV text.
ValueTokens(v) == IF v = "" THEN <<>> ELSE <<v>>

RECURSIVE JoinComma(_)
JoinComma(values) ==
    IF values = <<>> THEN <<>>
    ELSE IF Len(values) = 1 THEN ValueTokens(values[1])
    ELSE ValueTokens(Head(values)) \o <<",">> \o JoinComma(Tail(values))

RECURSIVE RenderRows(_, _)
RenderRows(rows, eol) ==
    IF rows = <<>> THEN <<>>
    ELSE eol \o JoinComma(Head(rows)) \o RenderRows(Tail(rows), eol)

RenderCsv(in) ==
    JoinComma(in.header) \o RenderRows(in.rows, in.eol) \o
    (IF in.trailing THEN in.eol ELSE <<>>)

\* csvSample of test(): ID,Timestamp,Contents,Attachments and two rows
CsvSample ==
    [header |-> <<"ID", "Timestamp", "Contents", "Attachments">>,
     rows |-> <<<<"1", "2021-01-01", "Hello", "">>, <<"2", "2021-01-02", "World", "link">>>>,
     eol |-> <<"\n">>, trailing |-> FALSE]

CsvHeaders == {<<"ID">>, <<"ID", "Contents">>, <<"Contents", "ID">>}
CsvValues == {"", "1"}

RECURSIVE SeqsUpTo(_, _)
SeqsUpTo(S, n) ==
    IF n = 0 THEN {<<>>}
    ELSE LET shorter == SeqsUpTo(S, n - 1)
         IN shorter \cup {Append(q, x) : q \in {r \in shorter : Len(r) = n - 1}, x \in S}

\* A row has at least one value and at most one more than the header.
CsvRows(header) == SeqsUpTo(CsvValues, Len(header) + 1) \ {<<>>}

\* CSV texts: a header of distinct names, then rows, the last of which is not
\* a blank line; lines end in LF or CRLF, with or without one after the last.
CsvInputs ==
    {CsvSample} \cup
    UNION {{[header |-> h, rows |-> rs, eol |-> e, trailing |-> t] :
                rs \in {q \in SeqsUpTo(CsvRows(h), MaxRows) :
                            q = <<>> \/ q[Len(q)] # <<"">>},
                e \in {<<"\n">>, <<"\r", "\n">>},
                t \in BOOLEAN} : h \in CsvHeaders}

InitCsv ==
    /\ IdleMain
    /\ IdleClicks
    /\ IdleUser
    /\ IdleMessages
    /\ IdleApps
    /\ IdleChannel
    /\ IdleList
    /\ csvIn \in CsvInputs
    /\ csvText = RenderCsv(csvIn)
    /\ csvOut = NotCalled

CallParseCsv ==
    /\ csvOut = NotCalled
    /\ csvOut' = Returns(ParseCsv(csvText))
    /\ UNCHANGED <<csvIn, csvText>>
    /\ UNCHANGED otherThanCsv

NextCsv == CallParseCsv

SpecCsv == InitCsv /\ [][NextCsv]_vars

Message(ID, id, Timestamp, timestamp, Contents, content, Attachments, attachments) ==
    Obj([ID |-> ID, id |-> id, Timestamp |-> Timestamp, timestamp |-> timestamp,
         Contents |-> Contents, content |-> content,
         Attachments |-> Attachments, attachments |-> attachments])

\* The records of a JSON log the model draws from: each key absent or present.
Messages ==
    {Message(ID, id, Timestamp, timestamp, Contents, content, Attachments, attachments) :
        ID \in {Undefined, Null, Str(""), Str("9")},
        id \in {Undefined, Null, Str("5")},
        Timestamp \in {Undefined, Str("2021-01-01")},
        timestamp \in {Undefined, Str("2020-12-31")},
        Contents \in {Undefined, Null, Str(""), Str("Hello")},
        content \in {Undefined, Null, Str("hi")},
        Attachments \in {Undefined, Str("")},
        attachments \in {Undefined, Str("http://x/a.png")}}

LastMessage ==
    Message(Str("10"), Undefined, Str("2021-01-02"), Undefined, Str("bye"), Undefined,
            Str(""), Undefined)

MessageLogs ==
    {NoFile, BadFile, JsonFile(Null), JsonFile(Obj([messages |-> Arr(<<>>)])),
     JsonFile(Arr(<<>>)), JsonFile(Arr(<<Null>>))}
    \cup {JsonFile(Arr(<<m>>)) : m \in Messages}
    \cup {JsonFile(Arr(<<m, LastMessage>>)) : m \in Messages}

\* The CSV logs the model draws from.
CsvLogs ==
    {NoCsvFile} \cup
    {[header |-> h, rows |-> rs, eol |-> <<"\n">>, trailing |-> t, absent |-> FALSE] :
        h \in {<<"ID", "Timestamp", "Contents", "Attachments">>},
        rs \in {<<>>,
                <<<<"1", "2021-01-01", "Hello", "">>, <<"2", "2021-01-02", "World", "link">>,
                  <<"3">>>>},
        t \in BOOLEAN}

TextFile(text) == [exists |-> TRUE, text |-> text]

\* m.ID ?? m.id ?? ''
Resolve(m, capitalized, lowercase) ==
    Coalesce(Coalesce(Get(m, capitalized), Get(m, lowercase)), Str(""))

\* Mutant of NormalizeJson: the lowercase key is tried first.
NormalizeJson_LowercaseFirst(m) ==
    [id |-> Resolve(m, "id", "ID"),
     timestamp |-> Resolve(m, "timestamp", "Timestamp"),
     content |-> Resolve(m, "content", "Contents"),
     attachments |-> Resolve(m, "attachments", "Attachments")]

\* the callback of data.map for a JSON log
NormalizeJson(m) ==
    [id |-> Resolve(m, "ID", "id"),
     timestamp |-> Resolve(m, "Timestamp", "timestamp"),
     content |-> Resolve(m, "Contents", "content"),
     attachments |-> Resolve(m, "Attachments", "attachments")]

\* m.key of a record of parseCsv
Field(m, key) == IF key \in DOMAIN m THEN m[key] ELSE Undefined

\* the callback of parsed.map for a CSV log
NormalizeCsv(m) ==
    [id |-> Field(m, "ID"),
     timestamp |-> Field(m, "Timestamp"),
     content |-> Field(m, "Contents"),
     attachments |-> Field(m, "Attachments")]

\* the branch of readMessages for messages.json
ReadJsonLog(json) ==
    LET r == ReadJson(json)
    IN IF ~r.ok THEN r
       ELSE IF r.value.t # "array" THEN Throws("TypeError")
       ELSE IF \E k \in 1..Len(r.value.a) : Nullish(r.value.a[k]) THEN Throws("TypeError")
       ELSE Returns([k \in 1..Len(r.value.a) |-> NormalizeJson(r.value.a[k])])

\* the branch of readMessages for messages.csv
ReadCsvLog(csv) ==
    LET parsed == ParseCsv(csv.text)
    IN Returns([k \in 1..Len(parsed) |-> NormalizeCsv(parsed[k])])

\* Mutant of ReadMessages: the CSV log is preferred to the JSON log.
ReadMessages_CsvFirst(json, csv) ==
    IF csv.exists THEN ReadCsvLog(csv)
    ELSE IF json.exists THEN ReadJsonLog(json)
    ELSE Returns(<<>>)

\* readMessages(zip, dir), given the two log files of Messages/<dir>
ReadMessages(json, csv) ==
    IF json.exists THEN ReadJsonLog(json)
    ELSE IF csv.exists THEN ReadCsvLog(csv)
    ELSE Returns(<<>>)

InitMessages ==
    /\ IdleMain
    /\ IdleClicks
    /\ IdleUser
    /\ IdleApps
    /\ IdleChannel
    /\ IdleList
    /\ IdleCsv
    /\ msgJson \in MessageLogs
    /\ msgCsvIn \in CsvLogs
    /\ msgCsv = IF msgCsvIn.absent THEN NoFile ELSE TextFile(RenderCsv(msgCsvIn))
    /\ msgOut = NotCalled

CallReadMessages ==
    /\ msgOut = NotCalled
    /\ msgOut' = ReadMessages(msgJson, msgCsv)
    /\ UNCHANGED <<msgJson, msgCsvIn, msgCsv>>
    /\ UNCHANGED otherThanMessages

NextMessages == CallReadMessages

SpecMessages == InitMessages /\ [][NextMessages]_vars

MessagesCalled == msgOut # NotCalled

\* messages.json is a JSON array of records
WellFormedLog ==
    /\ msgJson.exists /\ msgJson.parses
    /\ msgJson.json.t = "array"
    /\ \A k \in 1..Len(msgJson.json.a) : msgJson.json.a[k].t = "object"

FromJsonLog == Len(msgOut.value) = Len(msgJson.json.a)

FromCsvLog ==
    /\ Len(msgOut.value) = Len(msgCsvIn.rows)
    /\ \A k \in 1..Len(msgCsvIn.rows) : msgOut.value[k].id = Str(msgCsvIn.rows[k][1])

IsSet(v) == v \notin {Undefined, Null}

Expected(m, capitalized, lowercase) ==
    IF IsSet(m[capitalized]) THEN m[capitalized]
    ELSE IF IsSet(m[lowercase]) THEN m[lowercase]
    ELSE Str("")

\* C8: for every record of a JSON log and each of id, timestamp, content and
\* attachments, readMessages takes the value of the capitalized key when the
\* record has one (a value other than null), also when it has the lowercase
\* key too, and the value of the lowercase key only when it has no capitalized
\* one.
C8_CapitalizedFirst ==
    (MessagesCalled /\ WellFormedLog) =>
        /\ msgOut.ok
        /\ \A k \in 1..Len(msgJson.json.a) :
              LET m == msgJson.json.a[k].o
                  out == msgOut.value[k]
              IN /\ out.id = Expected(m, "ID", "id")
                 /\ out.timestamp = Expected(m, "Timestamp", "timestamp")
                 /\ out.content = Expected(m, "Contents", "content")
                 /\ out.attachments = Expected(m, "Attachments", "attachments")

\* {"ID": "9", "id": "5", "content": "hi"}: id "9" although id exists, content "hi"
C8_Witness ==
    /\ MessagesCalled /\ WellFormedLog /\ Len(msgJson.json.a) = 1
    /\ msgJson.json.a[1].o.ID = Str("9")
    /\ msgJson.json.a[1].o.id = Str("5")
    /\ msgJson.json.a[1].o.Contents = Undefined
    /\ msgJson.json.a[1].o.content = Str("hi")
    /\ msgOut.value[1].id = Str("9")
    /\ msgOut.value[1].content = Str("hi")

(***************************************************************************)
(* account.js: parseUser                                                   *)
(***************************************************************************)
Profile(id, username, global_name, email, verified, flags) ==
    Obj([id |-> id, username |-> username, discriminator |-> Str("0"),
         global_name |-> global_name, email |-> email, verified |-> verified,
         phone |-> Undefined, premium_until |-> Undefined, flags |-> flags])

\* The user.json contents the model draws from.
Profiles ==
    {Profile(id, username, global_name, email, verified, flags) :
        id \in {Undefined, Str(""), Str("123"), Num(123)},
        username \in {Undefined, Str(""), Str("alice")},
        global_name \in {Undefined, Str("Al")},
        email \in {Undefined, Str("a@b.c")},
        verified \in {Undefined, Bool(TRUE)},
        flags \in {Undefined, Null, Num(0), Num(64), Str(""), Str("STAFF"),
                   Arr(<<>>), Arr(<<Str("STAFF"), Str("PARTNER")>>)}}

UserFiles == {NoFile, BadFile, JsonFile(Null)} \cup {JsonFile(u) : u \in Profiles}

\* Mutant of ParseUser: the username is taken from global_name.
ParseUser_GlobalNameAsUsername(file) ==
    LET r == ReadJsonAccount(file)
    IN IF ~r.ok THEN r
       ELSE IF Nullish(r.value) THEN Throws("TypeError")
       ELSE LET user == r.value
            IN Returns([id |-> Get(user, "id"),
                        username |-> Get(user, "global_name"),
                        discriminator |-> Get(user, "discriminator"),
                        globalName |-> Or(Get(user, "global_name"), Null),
                        email |-> Get(user, "email"),
                        verified |-> Get(user, "verified"),
                        phone |-> Get(user, "phone"),
                        premiumUntil |-> Get(user, "premium_until"),
                        flags |-> Or(Get(user, "flags"), Arr(<<>>))])

\* parseUser(zip): an error of readJson, or of user.id on null, propagates
ParseUser(file) ==
    LET r == ReadJsonAccount(file)
    IN IF ~r.ok THEN r
       ELSE IF Nullish(r.value) THEN Throws("TypeError")
       ELSE LET user == r.value
            IN Returns([id |-> Get(user, "id"),
                        username |-> Get(user, "username"),
                        discriminator |-> Get(user, "discriminator"),
                        globalName |-> Or(Get(user, "global_name"), Null),
                        email |-> Get(user, "email"),
                        verified |-> Get(user, "verified"),
                        phone |-> Get(user, "phone"),
                        premiumUntil |-> Get(user, "premium_until"),
                        flags |-> Or(Get(user, "flags"), Arr(<<>>))])

InitUser ==
    /\ IdleMain
    /\ IdleClicks
    /\ IdleApps
    /\ IdleChannel
    /\ IdleList
    /\ IdleCsv
    /\ IdleMessages
    /\ userFile \in UserFiles
    /\ account = NotCalled

CallParseUser ==
    /\ account = NotCalled
    /\ account' = ParseUser(userFile)
    /\ UNCHANGED userFile
    /\ UNCHANGED otherThanUser

NextUser == CallParseUser

SpecUser == InitUser /\ [][NextUser]_vars

UserCalled == account # NotCalled
ProfileParsed == userFile.exists /\ userFile.parses /\ userFile.json.t = "object"

\* C10: the flags of the account record are a sequence: the profile's flags
\* when those are a sequence, the empty sequence when they are absent or of
\* another type (a number, a string).
C10_FlagsIsSequence ==
    (UserCalled /\ ProfileParsed) =>
        /\ account.ok
        /\ account.value.flags.t = "array"
        /\ account.value.flags =
              (IF userFile.json.o.flags.t = "array" THEN userFile.json.o.flags
               ELSE Arr(<<>>))

NonEmptyString(v) == v.t = "string" /\ v.s # ""

\* A valid archive: user.json is a profile with a non-empty string id and username.
ValidProfile ==
    /\ ProfileParsed
    /\ NonEmptyString(userFile.json.o.id)
    /\ NonEmptyString(userFile.json.o.username)

\* C11: for a valid archive that contains Account/user.json, parseUser returns
\* a record whose id and username are non-empty strings, those of the profile.
C11_IdAndUsername ==
    (UserCalled /\ ValidProfile) =>
        /\ account.ok
        /\ NonEmptyString(account.value.id)
        /\ NonEmptyString(account.value.username)
        /\ account.value.id = userFile.json.o.id
        /\ account.value.username = userFile.json.o.username

C11_Witness ==
    /\ UserCalled /\ ValidProfile
    /\ userFile.json.o.global_name = Undefined
    /\ account.ok
    /\ account.value.id = Str("123")
    /\ account.value.username = Str("alice")

(***************************************************************************)
(* messages.js: render, the click handler of a channel list item          *)
(***************************************************************************)
\* What readMessages gives for a channel: "table" (a log with messages),
\* "emptylog" (a log without messages), "bad" (a malformed messages.json: the
\* call rejects), all three after reading the log from the archive; "nolog"
\* (neither log exists): [] without reading anything.
ChannelKinds == {"table", "emptylog", "bad", "nolog"}

\* msgHeading: 'Messages' at first, then `Messages in ${info.name}...`
Title == [kind |-> "title"]
HeadingOf(dir) == [kind |-> "in", dir |-> dir]

\* msgContainer: empty, 'Loading messages…', 'No messages in this channel.',
\* or the table of a channel's messages
Loading == [kind |-> "loading"]
NoMessages == [kind |-> "nomessages"]
TableOf(dir) == [kind |-> "table", dir |-> dir]

InitClicks ==
    /\ IdleMain
    /\ IdleApps
    /\ IdleChannel
    /\ IdleList
    /\ IdleCsv
    /\ IdleMessages
    /\ IdleUser
    /\ chKind \in [Dirs -> ChannelKinds]
    /\ clicked = <<>>
    /\ reads = {}
    /\ highlighted = ""
    /\ msgHeading = Title
    /\ msgContainer = NoText

\* The click handler up to `await readMessages(zip, dir)`, for a channel with a log.
Click(dir) ==
    /\ Len(clicked) < MaxClicks
    /\ chKind[dir] # "nolog"
    /\ clicked' = Append(clicked, dir)
    /\ highlighted' = dir
    /\ msgContainer' = Loading
    /\ reads' = reads \cup {Len(clicked) + 1}
    /\ UNCHANGED <<chKind, msgHeading>>
    /\ UNCHANGED otherThanClicks

\* The click handler for a channel without a log: readMessages awaits nothing,
\* so the handler resumes in the same task, before any other event or read.
ClickNoLog(dir) ==
    /\ Len(clicked) < MaxClicks
    /\ chKind[dir] = "nolog"
    /\ clicked' = Append(clicked, dir)
    /\ highlighted' = dir
    /\ msgHeading' = HeadingOf(dir)
    /\ msgContainer' = NoMessages
    /\ UNCHANGED <<chKind, reads>>
    /\ UNCHANGED otherThanClicks

\* The read of click n may settle now: reads of one file settle in the order
\* they were started, reads of different files in any order.
MayComplete(n) == \A m \in reads : (m < n => clicked[m] # clicked[n])

\* The click handler after `await readMessages(zip, dir)`, for click n.
ReadCompletes(n) ==
    /\ n \in reads
    /\ MayComplete(n)
    /\ reads' = reads \ {n}
    /\ LET dir == clicked[n]
       IN CASE chKind[dir] = "bad" -> UNCHANGED <<msgHeading, msgContainer>>
            [] chKind[dir] = "emptylog" ->
                 /\ msgHeading' = HeadingOf(dir)
                 /\ msgContainer' = NoMessages
            [] OTHER ->
                 /\ msgHeading' = HeadingOf(dir)
                 /\ msgContainer' = TableOf(dir)
    /\ UNCHANGED <<chKind, clicked, highlighted>>
    /\ UNCHANGED otherThanClicks

NextClicks ==
    \/ \E dir \in Dirs : Click(dir)
    \/ \E dir \in Dirs : ClickNoLog(dir)
    \/ \E n \in 1..MaxClicks : ReadCompletes(n)

SpecClicks == InitClicks /\ [][NextClicks]_vars

LastClicked == clicked[Len(clicked)]
AllLogsReadable == \A k \in 1..Len(clicked) : chKind[clicked[k]] # "bad"

\* C12: once every pending readMessages has completed, the heading and the
\* table show the channel clicked last (whatever the order of completion).
C12_LastClickShown ==
    (clicked # <<>> /\ reads = {} /\ AllLogsReadable) =>
        /\ msgHeading = HeadingOf(LastClicked)
        /\ msgContainer = (IF chKind[LastClicked] \in {"emptylog", "nolog"} THEN NoMessages
                           ELSE TableOf(LastClicked))

(***************************************************************************)
(* main.js: handleFile                                                     *)
(***************************************************************************)
\* The files a user can select: three exports and a file that is no ZIP.
\* An archive is the list of its entry names, each split at "/" (a name that
\* ends in "/" has "" as its last part).
Files == {"full", "accountOnly", "messagesFirst", "notAZip"}

ValidZip(file) == file # "notAZip"

ZipFiles(file) ==
    CASE file = "full" ->
            <<<<"Account", "">>, <<"Account", "user.json">>, <<"Account", "applications", "">>,
              <<"Messages", "">>, <<"Messages", "c1", "">>, <<"Servers", "">>>>
      [] file = "accountOnly" ->
            <<<<"README.txt">>, <<"Account", "">>, <<"Account", "user.json">>>>
      [] file = "messagesFirst" ->
            <<<<"Messages", "">>, <<"Messages", "c1", "messages.json">>, <<"Account", "">>>>
      [] OTHER -> <<>>

\* .filter((v, i, a) => a.indexOf(v) === i)
RECURSIVE Unique(_, _)
Unique(names, seen) ==
    IF names = <<>> THEN seen
    ELSE Unique(Tail(names), IF Head(names) \in Range(seen) THEN seen
                             ELSE Append(seen, Head(names)))

RECURSIVE DirRoots(_)
DirRoots(files) ==
    IF files = <<>> THEN <<>>
    ELSE (IF Head(files)[Len(Head(files))] = "" THEN <<Head(files)[1]>> ELSE <<>>)
         \o DirRoots(Tail(files))

\* rootFolders: the first part of every name that ends in "/", without repeats
RootFolders(files) == Unique(DirRoots(files), <<>>)

\* folder.toLowerCase()
ToLowerCase(folder) ==
    CASE folder = "Account" -> "account"
      [] folder = "Messages" -> "messages"
      [] OTHER -> folder

\* The label of the button a folder gets, "" for a folder without a case.
ButtonOf(folder) ==
    CASE ToLowerCase(folder) = "account" -> "Account"
      [] ToLowerCase(folder) = "messages" -> "Messages"
      [] OTHER -> ""

\* The folders from the first one that has a case: the for loop runs through
\* the others without suspending.
RECURSIVE SkipToCase(_)
SkipToCase(folders) ==
    IF folders = <<>> THEN <<>>
    ELSE IF ButtonOf(Head(folders)) # "" THEN folders
    ELSE SkipToCase(Tail(folders))

\* The state of a call that continues its for loop over `folders`.
LoopOver(file, folders) ==
    IF SkipToCase(folders) = <<>>
    THEN [pc |-> "done", file |-> file, folders |-> <<>>]
    ELSE [pc |-> "importing", file |-> file, folders |-> SkipToCase(folders)]

Calls == 1..MaxSelections

InitMain ==
    /\ IdleApps
    /\ IdleChannel
    /\ IdleList
    /\ IdleCsv
    /\ IdleMessages
    /\ IdleUser
    /\ IdleClicks
    /\ selected = <<>>
    /\ call = <<>>
    /\ zip = 0
    /\ nav = <<>>
    /\ importing = <<>>
    /\ uploadStatus = ""

\* The change or drop listener with a file: handleFile up to `await JSZip.loadAsync(file)`.
SelectFile(file) ==
    /\ Len(selected) < MaxSelections
    /\ selected' = Append(selected, file)
    /\ call' = Append(call, [pc |-> "loading", file |-> file, folders |-> <<>>])
    /\ uploadStatus' = "Loading ZIP file..."
    /\ UNCHANGED <<zip, nav, importing>>
    /\ UNCHANGED otherThanMain

\* loadAsync of call n may settle now: loads of one file settle in the order
\* they were started, loads of different files in any order.
LoadMaySettle(n) ==
    \A m \in 1..(n - 1) : ~(call[m].pc = "loading" /\ call[m].file = call[n].file)

\* handleFile from the completion of loadAsync to its first `await import(...)`,
\* to its end when no folder has a case, or to the catch block when loadAsync fails.
LoadSettles(n) ==
    /\ n \in 1..Len(call)
    /\ call[n].pc = "loading"
    /\ LoadMaySettle(n)
    /\ IF ValidZip(call[n].file)
       THEN LET next == LoopOver(call[n].file, RootFolders(ZipFiles(call[n].file)))
            IN /\ zip' = n
               /\ uploadStatus' = "ZIP file loaded successfully."
               /\ nav' = <<>>
               /\ call' = [call EXCEPT ![n] = next]
               /\ importing' = IF next.pc = "importing" THEN Append(importing, n)
                               ELSE importing
       ELSE /\ uploadStatus' = "Error loading ZIP file"
            /\ call' = [call EXCEPT ![n] = [pc |-> "failed", file |-> call[n].file,
                                             folders |-> <<>>]]
            /\ UNCHANGED <<zip, nav, importing>>
    /\ UNCHANGED selected
    /\ UNCHANGED otherThanMain

\* The import awaited by call n may settle now: calls that await the same
\* module resume in the order they began to wait.
ImportMaySettle(n) ==
    \A i, j \in 1..Len(importing) :
        (importing[j] = n /\ i < j) =>
            ButtonOf(Head(call[importing[i]].folders)) # ButtonOf(Head(call[n].folders))

\* handleFile from the completion of `await import(...)` to the next one, or to its end.
ImportSettles(n) ==
    /\ n \in 1..Len(call)
    /\ call[n].pc = "importing"
    /\ ImportMaySettle(n)
    /\ nav' = Append(nav, ButtonOf(Head(call[n].folders)))
    /\ LET next == LoopOver(call[n].file, Tail(call[n].folders))
           others == SelectSeq(importing, LAMBDA m : m # n)
       IN /\ call' = [call EXCEPT ![n] = next]
          /\ importing' = IF next.pc = "importing" THEN Append(others, n) ELSE others
    /\ UNCHANGED <<selected, zip, uploadStatus>>
    /\ UNCHANGED otherThanMain

NextMain ==
    \/ \E file \in Files : SelectFile(file)
    \/ \E n \in Calls : LoadSettles(n)
    \/ \E n \in Calls : ImportSettles(n)

SpecMain == InitMain /\ [][NextMain]_vars

AllCallsFinished == \A n \in 1..Len(call) : call[n].pc \in {"done", "failed"}
LoadedCalls == {n \in 1..Len(call) : ValidZip(call[n].file)}
LastLoaded == CHOOSE n \in LoadedCalls : \A m \in LoadedCalls : m <= n

\* the buttons of the sections an archive has folders for
SectionsOf(file) ==
    {ButtonOf(f) : f \in Range(RootFolders(ZipFiles(file)))} \ {""}

\* C13: once every handleFile call has finished, zip holds the archive of the
\* file selected last among those that loaded, and nav holds at most one
\* button per section, those of that archive's top-level folders.
C13_LastSelectionWins ==
    (AllCallsFinished /\ LoadedCalls # {}) =>
        /\ zip = LastLoaded
        /\ \A i, j \in 1..Len(nav) : nav[i] = nav[j] => i = j
        /\ Range(nav) = SectionsOf(selected[LastLoaded])
====
